---- MODULE Spec2Model ----
(***************************************************************************)
(* The retrieval core of the car recommendation chatbot: the two vector    *)
(* store providers (ChromaDBProvider, QdrantDBProvider), and the           *)
(* RAGController that indexes a dataset into the configured collection and *)
(* searches it.                                                            *)
(*                                                                         *)
(* A Python exception leaving a method is the outcome kind "raised"; None  *)
(* is "none", {} is "emptydict".  The vendor clients (chromadb,            *)
(* qdrant_client) are modelled at the calls the providers make to them.    *)
(***************************************************************************)
EXTENDS Integers, Sequences, FiniteSets, TLC

\* ------------------------------------------------------------------ bounds
MaxLen == 2          \* longest texts list handed to insert_many
MaxRows == 2         \* most rows in the dataset
MaxDocs == 2         \* most documents the store holds before inserts stop

\* ------------------------------------------------------- program constants
DefaultBatchSize == 50
DefaultLimit == 3

CHROMA == "CHROMA"
QDRANT == "QDRANT"
Variants == {CHROMA, QDRANT}

COLLECTION_NAME == "cars"
Names == {COLLECTION_NAME, "other"}

Min(a, b) == IF a < b THEN a ELSE b

\* ---------------------------------------------------------------- dataset
\* the columns of the dataset file in file order, and the rows it can hold
columns == <<"make", "year">>
Row(make, year) == [make |-> make, year |-> year]
RowPool ==
    <<Row("Toyota", 2020), Row("Honda", 2019), Row("Toyota", 2021), Row("Honda", 2020)>>

\* f"{value}" of a cell: the text of a text cell, the digits of a number
Format(col, value) == IF col = "year" THEN ToString(value) ELSE value

\* a loop that writes the values without the column names
RECURSIVE Serialize_unlabelled(_, _, _)
Serialize_unlabelled(row, cols, output_str) ==
    IF cols = <<>> THEN output_str
    ELSE Serialize_unlabelled(row, Tail(cols),
                              output_str \o Format(Head(cols), row[Head(cols)]) \o ",\n")

\* the inner loop of prepare_data_for_injection over the columns not yet
\* written: output_str += f"{col}: {row[col]},\n"
RECURSIVE Serialize(_, _, _)
Serialize(row, cols, output_str) ==
    IF cols = <<>> THEN output_str
    ELSE Serialize(row, Tail(cols),
                   output_str \o Head(cols) \o ": " \o Format(Head(cols), row[Head(cols)])
                              \o ",\n")

\* the texts of the pool's rows, and the texts callers embed and insert
TextPool == [i \in 1..Len(RowPool) |-> Serialize(RowPool[i], columns, "")]
Texts == {TextPool[1], TextPool[2]}

\* a path, as the sequence of its separators, dots and names
CsvExtension == <<".", "csv">>
Files ==
    {<<"dataset", ".", "csv">>, <<"dataset", ".", "txt">>, <<".", "csv">>,
     <<"dataset", ".", "CSV">>}
database_dir == <<"assets", "/", "database">>

\* the last position of c in seq, 0 when it has none
LastIndex(seq, c) ==
    LET I == {i \in 1..Len(seq) : seq[i] = c}
    IN IF I = {} THEN 0 ELSE CHOOSE i \in I : \A j \in I : j <= i

\* os.path.basename: what follows the last separator
basename(path) == SubSeq(path, LastIndex(path, "/") + 1, Len(path))

\* os.path.splitext of a base name: the extension starts at the last dot,
\* unless only dots come before it
splitext(name) ==
    LET d == LastIndex(name, ".")
    IN IF d = 0 \/ \A i \in 1..(d - 1) : name[i] = "."
       THEN [root |-> name, ext |-> <<>>]
       ELSE [root |-> SubSeq(name, 1, d - 1), ext |-> SubSeq(name, d, Len(name))]

\* the text a path stands for
RECURSIVE PathText(_)
PathText(path) == IF path = <<>> THEN "" ELSE Head(path) \o PathText(Tail(path))

\* DatabaseController.get_dataset_path
get_dataset_path(db_name) == database_dir \o <<"/", "csv", "/">> \o db_name

\* Python's seq[i:j] for 0 <= i
Slice(seq, i, j) == SubSeq(seq, i + 1, Min(j, Len(seq)))

\* an optional argument: None, or a value
None == [none |-> TRUE, v |-> <<>>]
Some(x) == [none |-> FALSE, v |-> x]

\* the outcome of a call
Ret(kind, docs, count) == [kind |-> kind, docs |-> docs, count |-> count]
RetTrue == Ret("true", <<>>, -1)
RetFalse == Ret("false", <<>>, -1)
RetNone == Ret("none", <<>>, -1)
RetRaised == Ret("raised", <<>>, -1)
RetEmptyDict == Ret("emptydict", <<>>, -1)
RetInfo(n) == Ret("info", <<>>, n)
RetList(docs) == Ret("list", docs, -1)

\* the result of a provider method: the store after it, what it returned, and
\* the writes it attempted on the vendor client, in order
Out(s, ret, tr) == [s |-> s, ret |-> ret, tr |-> tr]

\* ------------------------------------------------------------- embeddings
\* the embedding model: two directions, one per make
EmbedVec(text) == IF text \in {TextPool[1], TextPool[3]} THEN <<1, 0>> ELSE <<0, 1>>

\* the embedding models a caller can have used for a vector: the configured
\* one, and one of a larger output size
Models == {"configured", "larger"}
Embed(model, text) ==
    IF model = "configured" THEN EmbedVec(text) ELSE EmbedVec(text) \o <<0>>

RECURSIVE Dot(_, _)
Dot(u, v) ==
    IF Len(u) = 0 \/ Len(v) = 0 THEN 0
    ELSE Head(u) * Head(v) + Dot(Tail(u), Tail(v))

\* ------------------------------------------------------------------ store
\* the on-disk store: which collections exist, and the documents of each in
\* insertion order, and the vector size each was created with (0: none given)
EmptyStore ==
    [exists |-> {}, docs |-> [n \in Names |-> <<>>], size |-> [n \in Names |-> 0]]

Ids(docs) == {docs[i].id : i \in 1..Len(docs)}

Document(id, text, vector, metadata) ==
    [id |-> id, text |-> text, vector |-> vector, metadata |-> metadata]

TotalDocs(s) == Len(s.docs[COLLECTION_NAME]) + Len(s.docs["other"])

\* ---------------------------------------------------- ChromaDBProvider
Chroma_is_collection_existed(s, collection_name) ==
    collection_name \in s.exists

Chroma_get_collection_info(s, collection_name, fail) ==
    IF fail \/ collection_name \notin s.exists
    THEN RetEmptyDict
    ELSE RetInfo(Len(s.docs[collection_name]))

\* client.delete_collection: the collection and its documents are gone; the
\* vendor clients raise on a name that does not exist
Client_delete_collection(s, name) ==
    [exists |-> s.exists \ {name}, docs |-> [s.docs EXCEPT ![name] = <<>>],
     size |-> [s.size EXCEPT ![name] = 0]]

\* delete_collection without its existence check
Chroma_delete_collection_unchecked(s, collection_name) ==
    IF collection_name \in s.exists
    THEN Out(Client_delete_collection(s, collection_name), RetNone, <<>>)
    ELSE Out(s, RetRaised, <<>>)

Chroma_delete_collection(s, collection_name) ==
    IF Chroma_is_collection_existed(s, collection_name)
    THEN Out(Client_delete_collection(s, collection_name), RetNone, <<>>)
    ELSE Out(s, RetNone, <<>>)

\* create_collection that ignores do_reset
Chroma_create_collection_noreset(s, collection_name, do_reset) ==
    IF ~Chroma_is_collection_existed(s, collection_name)
    THEN Out([s EXCEPT !.exists = @ \cup {collection_name}], RetTrue, <<>>)
    ELSE Out(s, RetFalse, <<>>)

Chroma_create_collection(s, collection_name, do_reset) ==
    LET s1 == IF do_reset THEN Chroma_delete_collection(s, collection_name).s ELSE s
    IN IF ~Chroma_is_collection_existed(s1, collection_name)
       THEN Out([s1 EXCEPT !.exists = @ \cup {collection_name}], RetTrue, <<>>)
       ELSE Out(s1, RetFalse, <<>>)

\* collection.add of the chromadb client: rejects an empty or misaligned
\* batch, an empty embedding and an id repeated in the batch; an id the
\* collection already holds is skipped
RECURSIVE Chroma_add_new(_, _, _, _, _)
Chroma_add_new(docs, documents, metadatas, ids, embeddings) ==
    IF Len(ids) = 0 THEN docs
    ELSE LET d == Document(Head(ids), Head(documents), Head(embeddings), Head(metadatas))
             docs1 == IF d.id \in Ids(docs) THEN docs ELSE Append(docs, d)
         IN Chroma_add_new(docs1, Tail(documents), Tail(metadatas), Tail(ids),
                           Tail(embeddings))

\* the dimension of a Chroma collection: that of the first embedding added
\* to it, 0 while it is empty
Chroma_dimension(docs) == IF Len(docs) = 0 THEN 0 ELSE Len(docs[1].vector)

\* a client that takes embeddings of any length
Chroma_add_any_dimension(docs, documents, metadatas, ids, embeddings, fail) ==
    IF \/ fail
       \/ Len(ids) = 0
       \/ Len(documents) # Len(ids)
       \/ Len(metadatas) # Len(ids)
       \/ Len(embeddings) # Len(ids)
       \/ \E i \in 1..Len(embeddings) : Len(embeddings[i]) = 0
       \/ \E i, j \in 1..Len(ids) : i # j /\ ids[i] = ids[j]
    THEN [ok |-> FALSE, docs |-> docs]
    ELSE [ok |-> TRUE, docs |-> Chroma_add_new(docs, documents, metadatas, ids, embeddings)]

\* it also rejects embeddings of two lengths and embeddings that are not of
\* the collection's dimension
Chroma_add(docs, documents, metadatas, ids, embeddings, fail) ==
    IF \/ fail
       \/ Len(ids) = 0
       \/ Len(documents) # Len(ids)
       \/ Len(metadatas) # Len(ids)
       \/ Len(embeddings) # Len(ids)
       \/ \E i \in 1..Len(embeddings) : Len(embeddings[i]) = 0
       \/ \E i, j \in 1..Len(ids) : i # j /\ ids[i] = ids[j]
       \/ \E i \in 1..Len(embeddings) : Len(embeddings[i]) # Len(embeddings[1])
       \/ \E i \in 1..Len(embeddings) :
              Chroma_dimension(docs) \notin {0, Len(embeddings[i])}
    THEN [ok |-> FALSE, docs |-> docs]
    ELSE [ok |-> TRUE, docs |-> Chroma_add_new(docs, documents, metadatas, ids, embeddings)]

Chroma_insert_one(s, collection_name, text, vector, metadata, record_id, uuid, fail) ==
    IF ~Chroma_is_collection_existed(s, collection_name)
    THEN Out(s, RetFalse, <<>>)
    ELSE LET rid == IF record_id.none THEN uuid ELSE record_id.v
             md == IF metadata.none THEN Some(<<>>) ELSE metadata
             r == Chroma_add(s.docs[collection_name], <<text>>, <<md>>, <<rid>>,
                             <<vector>>, fail)
         IN IF r.ok
            THEN Out([s EXCEPT !.docs[collection_name] = r.docs], RetTrue, <<1>>)
            ELSE Out(s, RetFalse, <<1>>)

\* a loop that hands every remaining text to one collection.add, whatever the
\* batch size
Chroma_insert_batches_whole(docs, texts, vectors, metadata, record_ids, batch_size, i, failAt, tr) ==
    IF i >= Len(texts) THEN [ok |-> TRUE, docs |-> docs, tr |-> tr]
    ELSE LET r == Chroma_add(docs, Slice(texts, i, Len(texts)),
                             Slice(metadata, i, Len(texts)),
                             Slice(record_ids, i, Len(texts)),
                             Slice(vectors, i, Len(texts)), failAt = 1)
         IN [ok |-> r.ok, docs |-> IF r.ok THEN r.docs ELSE docs, tr |-> Append(tr, 1)]

\* the loop with the try inside it: a failed batch is logged and the next
\* one is written
RECURSIVE Chroma_insert_batches_continue(_, _, _, _, _, _, _, _, _)
Chroma_insert_batches_continue(docs, texts, vectors, metadata, record_ids, batch_size, i, failAt, tr) ==
    IF i >= Len(texts) THEN [ok |-> failAt = 0, docs |-> docs, tr |-> tr]
    ELSE LET k == (i \div batch_size) + 1
             r == Chroma_add(docs,
                             Slice(texts, i, i + batch_size),
                             Slice(metadata, i, i + batch_size),
                             Slice(record_ids, i, i + batch_size),
                             Slice(vectors, i, i + batch_size),
                             failAt = k)
         IN Chroma_insert_batches_continue(r.docs, texts, vectors, metadata, record_ids,
                                           batch_size, i + batch_size, failAt,
                                           Append(tr, k))

\* the loop of insert_many from offset i on; failAt is the number of the batch
\* whose write the client rejects (0: none), tr the batches written so far
RECURSIVE Chroma_insert_batches(_, _, _, _, _, _, _, _, _)
Chroma_insert_batches(docs, texts, vectors, metadata, record_ids, batch_size, i, failAt, tr) ==
    IF i >= Len(texts) THEN [ok |-> TRUE, docs |-> docs, tr |-> tr]
    ELSE LET k == (i \div batch_size) + 1
             r == Chroma_add(docs,
                             Slice(texts, i, i + batch_size),
                             Slice(metadata, i, i + batch_size),
                             Slice(record_ids, i, i + batch_size),
                             Slice(vectors, i, i + batch_size),
                             failAt = k)
         IN IF r.ok
            THEN Chroma_insert_batches(r.docs, texts, vectors, metadata, record_ids,
                                       batch_size, i + batch_size, failAt, Append(tr, k))
            ELSE [ok |-> FALSE, docs |-> docs, tr |-> Append(tr, k)]

Chroma_insert_many(s, collection_name, texts, vectors, metadata, record_ids, batch_size, failAt) ==
    LET md == IF metadata.none THEN [i \in 1..Len(texts) |-> Some(<<>>)]
              ELSE [i \in 1..Len(metadata.v) |-> Some(metadata.v[i])]
        rids == IF record_ids.none THEN [i \in 1..Len(texts) |-> ToString(i - 1)]
                ELSE record_ids.v
    IN IF collection_name \notin s.exists
       THEN Out(s, RetFalse, <<>>)
       ELSE LET r == Chroma_insert_batches(s.docs[collection_name], texts, vectors, md,
                                           rids, batch_size, 0, failAt, <<>>)
            IN Out([s EXCEPT !.docs[collection_name] = r.docs],
                   IF r.ok THEN RetTrue ELSE RetFalse, r.tr)

\* the hits of collection.query: the n_results nearest documents, nearest
\* first (cosine distance over unit vectors), as the client's column lists
RECURSIVE InsertHit(_, _)
InsertHit(hit, hits) ==
    IF Len(hits) = 0 THEN <<hit>>
    ELSE IF hit.rank < Head(hits).rank THEN <<hit>> \o hits
    ELSE <<Head(hits)>> \o InsertHit(hit, Tail(hits))

RECURSIVE Ranked(_)
Ranked(hits) ==
    IF Len(hits) = 0 THEN <<>>
    ELSE InsertHit(hits[Len(hits)], Ranked(SubSeq(hits, 1, Len(hits) - 1)))

Chroma_query(docs, vector, n_results) ==
    LET all == [i \in 1..Len(docs) |->
                   [id |-> docs[i].id, text |-> docs[i].text,
                    score |-> 1 - Dot(docs[i].vector, vector),
                    rank |-> 1 - Dot(docs[i].vector, vector)]]
        top == SubSeq(Ranked(all), 1, Min(n_results, Len(docs)))
    IN [ids |-> <<[i \in 1..Len(top) |-> top[i].id]>>,
        documents |-> <<[i \in 1..Len(top) |-> top[i].text]>>,
        distances |-> <<[i \in 1..Len(top) |-> top[i].score]>>]

RetrievedDocument(score, text) == [text |-> text, score |-> score]

\* the pairs best score last
ZipReversed(documents, distances) ==
    LET n == Min(Len(documents), Len(distances))
    IN [i \in 1..n |-> RetrievedDocument(distances[n + 1 - i], documents[n + 1 - i])]

\* Python's zip: as long as the shorter list
Zip(documents, distances) ==
    [i \in 1..Min(Len(documents), Len(distances)) |->
        RetrievedDocument(distances[i], documents[i])]

\* collection.query raises on a query embedding that is not of the
\* collection's dimension
Chroma_search_by_vector(s, collection_name, vector, limit, fail) ==
    IF \/ fail \/ collection_name \notin s.exists \/ Len(vector) = 0
       \/ Chroma_dimension(s.docs[collection_name]) \notin {0, Len(vector)}
    THEN Out(s, RetNone, <<>>)
    ELSE LET results == Chroma_query(s.docs[collection_name], vector, limit)
         IN IF Len(results.ids[1]) = 0
            THEN Out(s, RetNone, <<>>)
            ELSE Out(s, RetList(Zip(results.documents[1], results.distances[1])), <<>>)

\* ---------------------------------------------------- QdrantDBProvider
Qdrant_is_collection_existed(s, collection_name) ==
    collection_name \in s.exists

\* no try/except: a missing collection or a client fault leaves the method
Qdrant_get_collection_info(s, collection_name, fail) ==
    IF fail \/ collection_name \notin s.exists
    THEN RetRaised
    ELSE RetInfo(Len(s.docs[collection_name]))

Qdrant_delete_collection(s, collection_name) ==
    IF Qdrant_is_collection_existed(s, collection_name)
    THEN Out(Client_delete_collection(s, collection_name), RetTrue, <<>>)
    ELSE Out(s, RetNone, <<>>)

\* embedding_size has no default: a call without it is a TypeError before the
\* body runs
Qdrant_create_collection(s, collection_name, embedding_size, do_reset) ==
    IF embedding_size.none THEN Out(s, RetRaised, <<>>)
    ELSE LET s1 == IF do_reset THEN Qdrant_delete_collection(s, collection_name).s ELSE s
         IN IF ~Qdrant_is_collection_existed(s1, collection_name)
            THEN Out([s1 EXCEPT !.exists = @ \cup {collection_name},
                                !.size[collection_name] = embedding_size.v],
                     RetTrue, <<>>)
            ELSE Out(s1, RetFalse, <<>>)

\* the id insert_one gives models.Record: a list holding record_id
ListOf(x) == [list |-> TRUE, v |-> x]

\* client.upload_records: every record replaces the stored one of its id or
\* is appended; a vector that is not of the size the collection was created
\* with is refused
RECURSIVE Qdrant_upsert(_, _)
Qdrant_upsert(docs, records) ==
    IF Len(records) = 0 THEN docs
    ELSE LET d == Head(records)
             docs1 == IF d.id \in Ids(docs)
                      THEN [i \in 1..Len(docs) |-> IF docs[i].id = d.id THEN d ELSE docs[i]]
                      ELSE Append(docs, d)
         IN Qdrant_upsert(docs1, Tail(records))

Qdrant_upload_records(s, collection_name, records, fail) ==
    IF \/ fail \/ collection_name \notin s.exists
       \/ \E i \in 1..Len(records) : Len(records[i].vector) # s.size[collection_name]
    THEN [ok |-> FALSE, s |-> s]
    ELSE [ok |-> TRUE,
          s |-> [s EXCEPT !.docs[collection_name] = Qdrant_upsert(@, records)]]

\* models.Record(id=[record_id], ...) does not validate: the id is a list
Qdrant_insert_one(s, collection_name, text, vector, metadata, record_id, fail) ==
    IF ~Qdrant_is_collection_existed(s, collection_name)
    THEN Out(s, RetFalse, <<>>)
    ELSE LET id == ListOf(record_id)
         IN IF id.list
            THEN Out(s, RetFalse, <<>>)
            ELSE LET r == Qdrant_upload_records(s, collection_name,
                              <<Document(id.v, text, vector, metadata)>>, fail)
                 IN Out(r.s, IF r.ok THEN RetTrue ELSE RetFalse, <<1>>)

RECURSIVE Qdrant_insert_batches(_, _, _, _, _, _, _, _, _)
Qdrant_insert_batches(s, collection_name, texts, vectors, metadata, record_ids, batch_size, i, ft) ==
    IF i >= Len(texts) THEN Out(s, RetTrue, ft.tr)
    ELSE LET batch_end == i + batch_size
             k == (i \div batch_size) + 1
             batch_texts == Slice(texts, i, batch_end)
             batch_vectors == Slice(vectors, i, batch_end)
             batch_metadata == Slice(metadata, i, batch_end)
             batch_record_ids == Slice(record_ids, i, batch_end)
         IN IF \/ Len(batch_vectors) < Len(batch_texts)
               \/ Len(batch_metadata) < Len(batch_texts)
               \/ Len(batch_record_ids) < Len(batch_texts)
            THEN Out(s, RetRaised, ft.tr)
            ELSE LET batch_records ==
                         [x \in 1..Len(batch_texts) |->
                             Document(batch_record_ids[x], batch_texts[x],
                                      batch_vectors[x], batch_metadata[x])]
                     r == Qdrant_upload_records(s, collection_name, batch_records,
                                                ft.failAt = k)
                 IN IF r.ok
                    THEN Qdrant_insert_batches(r.s, collection_name, texts, vectors,
                             metadata, record_ids, batch_size, batch_end,
                             [ft EXCEPT !.tr = Append(@, k)])
                    ELSE Out(s, RetFalse, Append(ft.tr, k))

Qdrant_insert_many(s, collection_name, texts, vectors, metadata, record_ids, batch_size, failAt) ==
    LET md == IF metadata.none THEN [i \in 1..Len(texts) |-> None]
              ELSE [i \in 1..Len(metadata.v) |-> Some(metadata.v[i])]
        rids == IF record_ids.none THEN [i \in 1..Len(texts) |-> ToString(i - 1)]
                ELSE record_ids.v
    IN Qdrant_insert_batches(s, collection_name, texts, vectors, md, rids, batch_size,
                             0, [failAt |-> failAt, tr |-> <<>>])

\* client.search: the limit nearest points, highest cosine similarity first
Qdrant_search(docs, query_vector, limit) ==
    LET all == [i \in 1..Len(docs) |->
                   [id |-> docs[i].id, text |-> docs[i].text,
                    score |-> Dot(docs[i].vector, query_vector),
                    rank |-> 0 - Dot(docs[i].vector, query_vector)]]
        top == SubSeq(Ranked(all), 1, Min(limit, Len(docs)))
    IN [i \in 1..Len(top) |->
           [id |-> top[i].id, score |-> top[i].score,
            payload |-> [text |-> top[i].text]]]

\* client.search raises on a query vector of another size
Qdrant_search_by_vector(s, collection_name, vector, limit, fail) ==
    IF \/ fail \/ collection_name \notin s.exists \/ Len(vector) = 0
       \/ Len(vector) # s.size[collection_name]
    THEN Out(s, RetRaised, <<>>)
    ELSE LET results == Qdrant_search(s.docs[collection_name], vector, limit)
         IN IF Len(results) = 0
            THEN Out(s, RetNone, <<>>)
            ELSE Out(s, RetList([i \in 1..Len(results) |->
                         RetrievedDocument(results[i].score, results[i].payload.text)]),
                     <<>>)

\* ------------------------------------------- the configured vector store
VDB_get_collection_info(v, s, collection_name, fail) ==
    IF v = CHROMA THEN Chroma_get_collection_info(s, collection_name, fail)
    ELSE Qdrant_get_collection_info(s, collection_name, fail)

VDB_delete_collection(v, s, collection_name) ==
    IF v = CHROMA THEN Chroma_delete_collection(s, collection_name)
    ELSE Qdrant_delete_collection(s, collection_name)

VDB_create_collection(v, s, collection_name, embedding_size, do_reset) ==
    IF v = CHROMA THEN Chroma_create_collection(s, collection_name, do_reset)
    ELSE Qdrant_create_collection(s, collection_name, embedding_size, do_reset)

VDB_insert_one(v, s, collection_name, text, vector, metadata, record_id, uuid, fail) ==
    IF v = CHROMA
    THEN Chroma_insert_one(s, collection_name, text, vector, metadata, record_id, uuid, fail)
    ELSE Qdrant_insert_one(s, collection_name, text, vector, metadata, record_id, fail)

VDB_insert_many(v, s, collection_name, texts, vectors, metadata, record_ids, batch_size, failAt) ==
    IF v = CHROMA
    THEN Chroma_insert_many(s, collection_name, texts, vectors, metadata, record_ids,
                            batch_size, failAt)
    ELSE Qdrant_insert_many(s, collection_name, texts, vectors, metadata, record_ids,
                            batch_size, failAt)

VDB_search_by_vector(v, s, collection_name, vector, limit, fail) ==
    IF v = CHROMA THEN Chroma_search_by_vector(s, collection_name, vector, limit, fail)
    ELSE Qdrant_search_by_vector(s, collection_name, vector, limit, fail)

\* ------------------------------------------------- DataProcessController
\* embed_text of the embedding provider: raises, or returns the vector of the
\* text, or a falsy value
embed_text(text, outcome) ==
    IF outcome = "raise" THEN [raised |-> TRUE, vector |-> <<>>]
    ELSE IF outcome = "empty" THEN [raised |-> FALSE, vector |-> <<>>]
    ELSE [raised |-> FALSE, vector |-> EmbedVec(text)]

\* what get_file_loader gives: the table and the base name of a .csv file,
\* None for any other extension; calls lists the parsers it ran
Loaded(kind, df, file_name, calls) ==
    [kind |-> kind, df |-> df, file_name |-> file_name, calls |-> calls]

\* a loader that parses whatever the extension is
get_file_loader_any(dataset_file, df, readFail) ==
    LET file_name == splitext(basename(dataset_file)).root
    IN IF readFail THEN Loaded("raised", <<>>, "", <<"read_csv">>)
       ELSE Loaded("table", df, PathText(file_name), <<"read_csv">>)

\* df is what the file holds; readFail: pd.read_csv raises
get_file_loader(dataset_file, df, readFail) ==
    LET file_names_with_extensions == basename(dataset_file)
        file_name == splitext(file_names_with_extensions).root
        file_extension == splitext(file_names_with_extensions).ext
    IN IF file_extension = CsvExtension
       THEN IF readFail THEN Loaded("raised", <<>>, "", <<"read_csv">>)
            ELSE Loaded("table", df, PathText(file_name), <<"read_csv">>)
       ELSE Loaded("none", <<>>, "", <<>>)

\* the four lists of prepare_data_for_injection, and the number of embedding
\* calls made
Prepared(raised, docs, metadatas, ids, embeddings, embedded) ==
    [raised |-> raised, docs |-> docs, metadatas |-> metadatas, ids |-> ids,
     embeddings |-> embeddings, embedded |-> embedded]

\* a loop that steps over a row whose embedding raises
RECURSIVE prepare_rows_skip(_, _, _, _, _)
prepare_rows_skip(df, file_name, embedFailAt, index, acc) ==
    IF index >= Len(df) THEN acc
    ELSE LET output_str == Serialize(df[index + 1], columns, "")
             e == embed_text(output_str, IF embedFailAt = index + 1 THEN "raise" ELSE "ok")
         IN IF e.raised
            THEN prepare_rows_skip(df, file_name, embedFailAt, index + 1,
                     Prepared(FALSE, acc.docs, acc.metadatas, acc.ids, acc.embeddings,
                              acc.embedded + 1))
            ELSE prepare_rows_skip(df, file_name, embedFailAt, index + 1,
                     Prepared(FALSE, Append(acc.docs, output_str),
                              Append(acc.metadatas, << <<"source", file_name>> >>),
                              Append(acc.ids, "id" \o ToString(index)),
                              Append(acc.embeddings, e.vector), acc.embedded + 1))

\* the loop of prepare_data_for_injection from the row of index `index` on:
\* one document per row, in row order; the embedding of row embedFailAt
\* raises (0: none does), and the exception leaves the method
RECURSIVE prepare_rows(_, _, _, _, _)
prepare_rows(df, file_name, embedFailAt, index, acc) ==
    IF index >= Len(df) THEN acc
    ELSE LET output_str == Serialize(df[index + 1], columns, "")
             e == embed_text(output_str, IF embedFailAt = index + 1 THEN "raise" ELSE "ok")
         IN IF e.raised
            THEN Prepared(TRUE, <<>>, <<>>, <<>>, <<>>, acc.embedded + 1)
            ELSE prepare_rows(df, file_name, embedFailAt, index + 1,
                     Prepared(FALSE, Append(acc.docs, output_str),
                              Append(acc.metadatas, << <<"source", file_name>> >>),
                              Append(acc.ids, "id" \o ToString(index)),
                              Append(acc.embeddings, e.vector), acc.embedded + 1))

prepare_data_for_injection(df, file_name, embedFailAt) ==
    prepare_rows(df, file_name, embedFailAt, 0, Prepared(FALSE, <<>>, <<>>, <<>>, <<>>, 0))

\* ---------------------------------------------------------- RAGController
\* what a controller method did: the store after it, its outcome, the calls
\* it made in order and the batch writes attempted
Done(s, ret, calls, writes) ==
    [s |-> s, ret |-> ret, calls |-> calls, writes |-> writes]

\* n entries "embed_text"
EmbedCalls(n) == [i \in 1..n |-> "embed_text"]

\* the collection is created before the documents are prepared
index_reembed_create_first(v, s, data_csv, df, f) ==
    LET c == VDB_create_collection(v, s, COLLECTION_NAME, None, TRUE)
        g == get_file_loader(data_csv, df, f.load)
        c0 == <<"create_collection", "get_file_loader">> \o g.calls
    IN IF c.ret.kind = "raised" THEN Done(c.s, RetNone, <<"create_collection">>, <<>>)
       ELSE IF g.kind # "table" THEN Done(c.s, RetNone, c0, <<>>)
       ELSE LET p == prepare_data_for_injection(g.df, g.file_name, f.embedFailAt)
                c1 == c0 \o <<"prepare_data_for_injection">> \o EmbedCalls(p.embedded)
            IN IF p.raised THEN Done(c.s, RetNone, c1, <<>>)
               ELSE LET m == VDB_insert_many(v, c.s, COLLECTION_NAME, p.docs,
                                 p.embeddings, Some(p.metadatas), Some(p.ids),
                                 DefaultBatchSize, f.failAt)
                        c3 == Append(c1, "insert_many")
                    IN IF m.ret.kind = "raised" THEN Done(m.s, RetNone, c3, m.tr)
                       ELSE LET vectordb_info ==
                                    VDB_get_collection_info(v, m.s, COLLECTION_NAME, f.info)
                                c4 == Append(c3, "get_collection_info")
                            IN IF vectordb_info.kind = "raised"
                               THEN Done(m.s, RetNone, c4, m.tr)
                               ELSE Done(m.s, vectordb_info, c4, m.tr)

\* the try block of index_into_vector_db: every exception ends it with None;
\* None from the loader cannot be unpacked, which raises too
index_reembed(v, s, data_csv, df, f) ==
    LET g == get_file_loader(data_csv, df, f.load)
        c0 == <<"get_file_loader">> \o g.calls
    IN IF g.kind # "table" THEN Done(s, RetNone, c0, <<>>)
       ELSE LET p == prepare_data_for_injection(g.df, g.file_name, f.embedFailAt)
                c1 == c0 \o <<"prepare_data_for_injection">> \o EmbedCalls(p.embedded)
            IN IF p.raised THEN Done(s, RetNone, c1, <<>>)
               ELSE LET c == VDB_create_collection(v, s, COLLECTION_NAME, None, TRUE)
                        c2 == Append(c1, "create_collection")
                    IN IF c.ret.kind = "raised" THEN Done(c.s, RetNone, c2, <<>>)
                       ELSE LET m == VDB_insert_many(v, c.s, COLLECTION_NAME, p.docs,
                                         p.embeddings, Some(p.metadatas), Some(p.ids),
                                         DefaultBatchSize, f.failAt)
                                c3 == Append(c2, "insert_many")
                            IN IF m.ret.kind = "raised"
                               THEN Done(m.s, RetNone, c3, m.tr)
                               ELSE LET vectordb_info ==
                                            VDB_get_collection_info(v, m.s, COLLECTION_NAME,
                                                                    f.info)
                                        c4 == Append(c3, "get_collection_info")
                                    IN IF vectordb_info.kind = "raised"
                                       THEN Done(m.s, RetNone, c4, m.tr)
                                       ELSE Done(m.s, vectordb_info, c4, m.tr)

\* an indexing that drops the collection before it loads the dataset
index_into_vector_db_reset_first(v, emflag, s, data_csv, df, f) ==
    IF ~emflag
    THEN LET vectordb_info == VDB_get_collection_info(v, s, COLLECTION_NAME, f.info)
         IN Done(s, vectordb_info, <<"get_collection_info">>, <<>>)
    ELSE index_reembed(v, VDB_delete_collection(v, s, COLLECTION_NAME).s, data_csv, df, f)

\* an indexing that embeds whatever the flag says
index_into_vector_db_always(v, emflag, s, data_csv, df, f) ==
    index_reembed(v, s, data_csv, df, f)

index_into_vector_db(v, emflag, s, data_csv, df, f) ==
    IF ~emflag
    THEN LET vectordb_info == VDB_get_collection_info(v, s, COLLECTION_NAME, f.info)
         IN Done(s, vectordb_info, <<"get_collection_info">>, <<>>)
    ELSE index_reembed(v, s, data_csv, df, f)

\* the search without its try/except: a store exception leaves the method
search_vector_db_collection_unguarded(v, s, text, limit, outcome, fail) ==
    LET e == embed_text(text, outcome)
    IN IF e.raised THEN Done(s, RetRaised, <<"embed_text">>, <<>>)
       ELSE IF Len(e.vector) = 0
       THEN Done(s, RetList(<<>>), <<"embed_text">>, <<>>)
       ELSE LET results == VDB_search_by_vector(v, s, COLLECTION_NAME, e.vector, limit, fail)
                c == <<"embed_text", "search_by_vector">>
            IN IF results.ret.kind = "none" THEN Done(s, RetList(<<>>), c, <<>>)
               ELSE Done(s, results.ret, c, <<>>)

\* the search without its check of the embedding
search_vector_db_collection_unchecked(v, s, text, limit, outcome, fail) ==
    LET e == embed_text(text, outcome)
    IN IF e.raised THEN Done(s, RetList(<<>>), <<"embed_text">>, <<>>)
       ELSE LET results == VDB_search_by_vector(v, s, COLLECTION_NAME, e.vector, limit, fail)
                c == <<"embed_text", "search_by_vector">>
            IN IF results.ret.kind \in {"raised", "none"}
               THEN Done(s, RetList(<<>>), c, <<>>)
               ELSE Done(s, results.ret, c, <<>>)

search_vector_db_collection(v, s, text, limit, outcome, fail) ==
    LET e == embed_text(text, outcome)
    IN IF e.raised THEN Done(s, RetList(<<>>), <<"embed_text">>, <<>>)
       ELSE IF Len(e.vector) = 0
       THEN Done(s, RetList(<<>>), <<"embed_text">>, <<>>)
       ELSE LET results == VDB_search_by_vector(v, s, COLLECTION_NAME, e.vector, limit, fail)
                c == <<"embed_text", "search_by_vector">>
            IN IF results.ret.kind = "raised"
               THEN Done(s, RetList(<<>>), c, <<>>)
               ELSE IF results.ret.kind = "none" \/ Len(results.ret.docs) = 0
               THEN Done(s, RetList(<<>>), c, <<>>)
               ELSE Done(s, results.ret, c, <<>>)

\* ------------------------------------------------------------------ state
\* Every action is one call of a provider or controller method.  The
\* controller only ever names COLLECTION_NAME; the second collection is there
\* to show what create, delete and insert_one leave alone.
\* -------------------------------------------------------------- factories
\* a setting left out of the environment is None; a credential can also be
\* set to the empty text
Unset == "None"
Credentials == {Unset, "", "secret"}

\* `not value` of a setting
Falsy(value) == value \in {Unset, ""}

\* the values of VECTOR_DB_PATH
DbPaths == {<<"chroma_db">>, <<"vectors", "/", "db">>}

\* the values of LLMEnums, and the identifiers create() can be given: those
\* of the two enumerations and one that neither holds
OPENAI == "OPENAI"
GROQ == "GROQ"
ProviderIds == {CHROMA, QDRANT, OPENAI, GROQ, "OTHER"}

\* os.path.exists on the directories of the file system
exists(fs, path) == path \in fs

\* os.makedirs: the directory and every missing ancestor
makedirs(fs, path) ==
    fs \cup {SubSeq(path, 1, k) : k \in {j \in 1..Len(path) :
                                              /\ path[j] # "/"
                                              /\ (j = Len(path) \/ path[j + 1] = "/")}}

\* what get_database_path did: the file system after it and the path
DbPath(fs, path, raised) == [fs |-> fs, path |-> path, raised |-> raised]

\* a get_database_path that creates the directory without looking: makedirs
\* raises FileExistsError on a directory that exists
get_database_path_unchecked(fs, db_name) ==
    LET database_path == database_dir \o <<"/">> \o db_name
    IN IF exists(fs, database_path) THEN DbPath(fs, database_path, TRUE)
       ELSE DbPath(makedirs(fs, database_path), database_path, FALSE)

\* DatabaseController.get_database_path
get_database_path(fs, db_name) ==
    LET database_path == database_dir \o <<"/">> \o db_name
    IN IF ~exists(fs, database_path)
       THEN DbPath(makedirs(fs, database_path), database_path, FALSE)
       ELSE DbPath(fs, database_path, FALSE)

\* a vector store object: its engine, its client handle and its directory;
\* NoProvider is None
VectorDBProvider(engine, client, db_path) ==
    [engine |-> engine, client |-> client, db_path |-> db_path]
NoProvider == VectorDBProvider("None", None, <<>>)

\* the constructors: the client is None until connect()
QdrantDBProvider(db_path) == VectorDBProvider(QDRANT, None, db_path)
ChromaDBProvider(db_path) == VectorDBProvider(CHROMA, None, db_path)

\* connect() opens a client on the directory; disconnect() drops it
connect(provider) == [provider EXCEPT !.client = Some(provider.db_path)]
disconnect(provider) == [provider EXCEPT !.client = None]

\* what a factory's create did
Created(kind, provider, fs) == [kind |-> kind, provider |-> provider, fs |-> fs]

\* VectorDBProviderFactory.create
VectorDBProviderFactory_create(config, fs, provider) ==
    IF provider \in {QDRANT, CHROMA}
    THEN LET d == get_database_path(fs, config.VECTOR_DB_PATH)
         IN IF d.raised THEN Created("raised", NoProvider, d.fs)
            ELSE IF provider = QDRANT
            THEN Created("provider", QdrantDBProvider(d.path), d.fs)
            ELSE Created("provider", ChromaDBProvider(d.path), d.fs)
    ELSE Created("none", NoProvider, fs)

\* an embedding provider object: its class and the credentials it was given
LLMProvider(class, api_key, azure_endpoint) ==
    [class |-> class, api_key |-> api_key, azure_endpoint |-> azure_endpoint]
NoLLM == LLMProvider("None", Unset, Unset)

\* the constructors of the providers; ctor tells whether the constructor,
\* handed a credential that is not set, raises or builds the object anyway
OpenAIProvider(api_key, azure_endpoint, ctor) ==
    IF ctor = "raise" /\ Falsy(api_key) THEN [kind |-> "raised", llm |-> NoLLM]
    ELSE [kind |-> "provider", llm |-> LLMProvider("OpenAIProvider", api_key, azure_endpoint)]

GroqProvider(api_key, ctor) ==
    IF ctor = "raise" /\ Falsy(api_key) THEN [kind |-> "raised", llm |-> NoLLM]
    ELSE [kind |-> "provider", llm |-> LLMProvider("GroqProvider", api_key, Unset)]

\* LLMProviderFactory(config, azure).create(provider)
LLMProviderFactory_create(config, azure, provider, ctor) ==
    IF provider = OPENAI
    THEN IF azure
         THEN OpenAIProvider(config.AZURE_OPENAI_API_KEY, config.AZURE_OPENAI_ENDPOINT, ctor)
         ELSE IF Falsy(config.OPENAI_API_KEY) THEN [kind |-> "none", llm |-> NoLLM]
         ELSE OpenAIProvider(config.OPENAI_API_KEY, Unset, ctor)
    ELSE IF provider = GROQ
    THEN IF Falsy(config.GROQ_API_KEY) THEN [kind |-> "none", llm |-> NoLLM]
         ELSE GroqProvider(config.GROQ_API_KEY, ctor)
    ELSE [kind |-> "none", llm |-> NoLLM]

\* the settings of one environment
Settings(db_path, openai, groq, azure_key, azure_endpoint) ==
    [VECTOR_DB_PATH |-> db_path, OPENAI_API_KEY |-> openai, GROQ_API_KEY |-> groq,
     AZURE_OPENAI_API_KEY |-> azure_key, AZURE_OPENAI_ENDPOINT |-> azure_endpoint]

\* the settings with the two backends the controllers read from them
ControllerSettings(config, embedding_backend, vector_db_backend) ==
    [VECTOR_DB_PATH |-> config.VECTOR_DB_PATH, OPENAI_API_KEY |-> config.OPENAI_API_KEY,
     GROQ_API_KEY |-> config.GROQ_API_KEY,
     AZURE_OPENAI_API_KEY |-> config.AZURE_OPENAI_API_KEY,
     AZURE_OPENAI_ENDPOINT |-> config.AZURE_OPENAI_ENDPOINT,
     EMBEDDING_BACKEND |-> embedding_backend, VECTOR_DB_BACKEND |-> vector_db_backend]

\* ------------------------------------------------ controller construction
\* one method call of a controller: the object it is made on and the method;
\* Null is the object when the attribute holds None, and the call then
\* raises AttributeError
MethodCall(on, method) == [on |-> on, method |-> method]
Null == "None"
NoController == "None"
text_embedding_client == "text_embedding_client"
vectordb_client == "vectordb_client"

\* the calls a controller method made, each with the object it was made on:
\* embed_text on the embedding client `client`, the store's methods on the
\* vector store client, the rest on `owner`, the controller that makes them
StoreMethods ==
    {"create_collection", "delete_collection", "insert_one", "insert_many",
     "search_by_vector", "get_collection_info"}
Trace(names, client, owner) ==
    [i \in 1..Len(names) |->
        MethodCall(IF names[i] = "embed_text" THEN client
                   ELSE IF names[i] \in StoreMethods THEN vectordb_client
                   ELSE owner,
                   names[i])]

\* the number of methods called on the controller itself
Entries == {"index_into_vector_db", "search_vector_db_collection", "get_file_loader"}
Operations(trace) ==
    Cardinality({i \in 1..Len(trace) : trace[i].on = "self" /\ trace[i].method \in Entries})

\* what a constructor did: the clients of the object, the file system and
\* the calls made; kind "raised" when an exception left the constructor
Constructed(kind, llm, vdb, fs, calls) ==
    [kind |-> kind, llm |-> llm, vdb |-> vdb, fs |-> fs, calls |-> calls]

\* DataProcessController.__init__; `client` names the object create() returns
DataProcessController_init(config, fs, client) ==
    LET c == LLMProviderFactory_create(config, FALSE, config.EMBEDDING_BACKEND, "ok")
    IN IF c.llm = NoLLM
       THEN Constructed("raised", NoLLM, NoProvider, fs,
                        <<MethodCall(Null, "set_embedding_model")>>)
       ELSE Constructed("controller", c.llm, NoProvider, fs,
                        <<MethodCall(client, "set_embedding_model")>>)

\* a constructor that leaves the vector store as the factory made it
RAGController_init_unconnected(config, fs) ==
    LET c == LLMProviderFactory_create(config, FALSE, config.EMBEDDING_BACKEND, "ok")
        v == VectorDBProviderFactory_create(config, fs, config.VECTOR_DB_BACKEND)
    IN IF c.llm = NoLLM
       THEN Constructed("raised", NoLLM, NoProvider, fs,
                        <<MethodCall(Null, "set_embedding_model")>>)
       ELSE Constructed("controller", c.llm, v.provider, v.fs,
                        <<MethodCall(text_embedding_client, "set_embedding_model")>>)

\* RAGController.__init__
RAGController_init(config, fs) ==
    LET c == LLMProviderFactory_create(config, FALSE, config.EMBEDDING_BACKEND, "ok")
        set == MethodCall(text_embedding_client, "set_embedding_model")
    IN IF c.llm = NoLLM
       THEN Constructed("raised", NoLLM, NoProvider, fs,
                        <<MethodCall(Null, "set_embedding_model")>>)
       ELSE LET v == VectorDBProviderFactory_create(config, fs, config.VECTOR_DB_BACKEND)
            IN IF v.provider = NoProvider
               THEN Constructed("raised", NoLLM, NoProvider, v.fs,
                                <<set, MethodCall(Null, "connect")>>)
               ELSE Constructed("controller", c.llm, connect(v.provider),
                                makedirs(v.fs, v.provider.db_path),
                                <<set, MethodCall(vectordb_client, "connect")>>)

\* ------------------------------------------------------ concurrent runs
\* the callers that run index_into_vector_db() with em at the same time, and
\* the state of their runs: the place each stands at and what it returned;
\* serial: the caller lets a run start only when no other is under way
Runs == {1, 2}
RunsOf(pc, out, serial) == [pc |-> pc, out |-> out, serial |-> serial]
NoRuns == RunsOf([r \in Runs |-> "done"], [r \in Runs |-> RetNone], TRUE)

\* client.create_collection of the chromadb client: raises on a name that
\* exists
Client_create_collection(s, name) ==
    IF name \in s.exists THEN Out(s, RetRaised, <<>>)
    ELSE Out([s EXCEPT !.exists = @ \cup {name}], RetTrue, <<>>)

\* client.delete_collection of the chromadb client: raises on a name that
\* does not exist
Client_delete_collection_call(s, name) ==
    IF name \in s.exists THEN Out(Client_delete_collection(s, name), RetNone, <<>>)
    ELSE Out(s, RetRaised, <<>>)

\* the Qdrant store and the outcome of its last call, when both variants are
\* given the same calls
Twin(s, ret) == [s |-> s, ret |-> ret]
NoTwin == Twin(EmptyStore, RetNone)

VARIABLES
    variant,    \* VECTOR_DB_BACKEND of the settings
    dataset,    \* the rows of the dataset file
    store,      \* the vector store on disk
    op,         \* the last call: its name, collection and arguments
    ret,        \* its outcome
    calls,      \* the calls a controller method made, in order
    writes,     \* the batches whose write was attempted, in order
    settings,   \* the settings read from the environment
    fs,         \* the directories of the file system
    vdb,        \* the vector store object a factory made last, or None
    llm,        \* the embedding provider a factory made last, or None
    controller, \* the class of the controller that stands constructed
    run,        \* the reindex runs in progress: where each stands, what it returned
    twin        \* the store of the other variant given the same calls, and its outcome

vars == <<variant, dataset, store, op, ret, calls, writes, settings, fs, vdb, llm, controller,
          run, twin>>

Call(name, coll, a) == [name |-> name, coll |-> coll, a |-> a]

Init ==
    /\ variant \in Variants
    /\ \E R \in 0..MaxRows : dataset = Slice(RowPool, 0, R)
    /\ store = EmptyStore
    /\ op = Call("init", COLLECTION_NAME, [x |-> 0])
    /\ ret = RetNone
    /\ calls = <<>>
    /\ writes = <<>>
    /\ settings = Settings(<<"chroma_db">>, "secret", "secret", Unset, Unset)
    /\ LET d == get_database_path({}, settings.VECTOR_DB_PATH)
       IN /\ fs = d.fs
          /\ vdb = connect(VectorDBProviderFactory_create(settings, {}, variant).provider)
    /\ llm = LLMProviderFactory_create(settings, FALSE, OPENAI, "ok").llm
    /\ controller = "RAGController"
    /\ run = NoRuns
    /\ twin = NoTwin

Config == UNCHANGED <<variant, dataset, settings, fs, vdb, llm, controller, run, twin>>

EmbeddingSize == Len(EmbedVec(TextPool[1]))

CreateCollection ==
    \E n \in Names, do_reset \in BOOLEAN, model \in Models :
        LET embedding_size == IF model = "configured" THEN EmbeddingSize
                              ELSE Len(Embed(model, TextPool[1]))
            r == VDB_create_collection(variant, store, n, Some(embedding_size), do_reset)
        IN /\ model # "configured" => n = COLLECTION_NAME
           /\ store' = r.s
           /\ ret' = r.ret
           /\ op' = Call("create_collection", n,
                         [do_reset |-> do_reset, existed |-> n \in store.exists,
                          count |-> Len(store.docs[n])])
           /\ calls' = <<>> /\ writes' = r.tr
           /\ Config

DeleteCollection ==
    \E n \in Names :
        LET r == VDB_delete_collection(variant, store, n)
        IN /\ store' = r.s
           /\ ret' = r.ret
           /\ op' = Call("delete_collection", n, [existed |-> n \in store.exists])
           /\ calls' = <<>> /\ writes' = r.tr
           /\ Config

GetCollectionInfo ==
    \E n \in {COLLECTION_NAME}, fail \in BOOLEAN :
        /\ ret' = VDB_get_collection_info(variant, store, n, fail)
        /\ op' = Call("get_collection_info", n,
                      [existed |-> n \in store.exists, fail |-> fail])
        /\ calls' = <<>> /\ writes' = <<>>
        /\ UNCHANGED store
        /\ Config

\* the value uuid.uuid4() yields: an id no document of the collection has
Uuid4(docs) == "u" \o ToString(Len(docs) + 1)

InsertOne ==
    \E n \in Names, text \in Texts, withId \in BOOLEAN, fail \in BOOLEAN, model \in Models :
        LET r == VDB_insert_one(variant, store, n, text, Embed(model, text), None,
                                IF withId THEN Some("id0") ELSE None,
                                Uuid4(store.docs[n]), fail)
        IN /\ TotalDocs(store) < MaxDocs
           /\ model # "configured" => n = COLLECTION_NAME /\ ~withId /\ ~fail
           /\ store' = r.s
           /\ ret' = r.ret
           /\ op' = Call("insert_one", n,
                         [existed |-> n \in store.exists, withId |-> withId,
                          fail |-> fail, model |-> model, text |-> text])
           /\ calls' = <<>> /\ writes' = r.tr
           /\ Config

BatchSizes == {1, 2, DefaultBatchSize}

NumBatches(n, batch_size) == (n + batch_size - 1) \div batch_size

\* the ids a caller passes along with n texts
CallerIds(n) == [i \in 1..n |-> "id" \o ToString(i - 1)]

InsertMany ==
    \E n \in {COLLECTION_NAME}, len \in 0..MaxLen, short \in BOOLEAN, withIds \in BOOLEAN,
       batch_size \in BatchSizes, model \in Models, from \in {0, 1} :
        \E failAt \in 0..NumBatches(len, batch_size) :
            LET texts == Slice(TextPool, from, from + len)
                embedded == [i \in 1..len |-> Embed(model, texts[i])]
                vectors == IF short THEN Slice(embedded, 0, len - 1) ELSE embedded
                r == VDB_insert_many(variant, store, n, texts, vectors, None,
                                     IF withIds THEN Some(CallerIds(len)) ELSE None,
                                     batch_size, failAt)
            IN /\ TotalDocs(store) + len <= MaxDocs
               /\ short => len >= 1 /\ failAt = 0 /\ batch_size = DefaultBatchSize
               /\ len = 0 => batch_size = DefaultBatchSize
               /\ from # 0 =>
                      len = 1 /\ ~short /\ failAt = 0 /\ model = "configured"
                              /\ batch_size = DefaultBatchSize
               /\ model # "configured" =>
                      len >= 1 /\ ~short /\ withIds /\ failAt = 0
                               /\ batch_size = DefaultBatchSize
               /\ store' = r.s
               /\ ret' = r.ret
               /\ op' = Call("insert_many", n,
                             [existed |-> n \in store.exists, len |-> len,
                              short |-> short, withIds |-> withIds,
                              batch_size |-> batch_size, failAt |-> failAt,
                              model |-> model, from |-> from])
               /\ calls' = <<>> /\ writes' = r.tr
               /\ Config

Limits == {1, DefaultLimit}

SearchByVector ==
    \E n \in {COLLECTION_NAME}, text \in Texts, limit \in Limits, fail \in BOOLEAN :
        LET r == VDB_search_by_vector(variant, store, n, EmbedVec(text), limit, fail)
        IN /\ fail => text = TextPool[1] /\ limit = DefaultLimit
           /\ ret' = r.ret
           /\ op' = Call("search_by_vector", n,
                         [existed |-> n \in store.exists, vector |-> EmbedVec(text),
                          limit |-> limit, fail |-> fail])
           /\ calls' = <<>> /\ writes' = <<>>
           /\ UNCHANGED store
           /\ Config

\* the faults one indexing run can meet: none, the dataset cannot be read, the
\* embedding of row 1 or of the last row raises, the client rejects the write,
\* the client fails to describe the collection
FaultKinds == {"none", "load", "embed_first", "embed_last", "write", "info"}

Faults(kind, df) ==
    [load |-> kind = "load",
     embedFailAt |-> IF kind = "embed_first" THEN 1
                     ELSE IF kind = "embed_last" THEN Len(df) ELSE 0,
     failAt |-> IF kind = "write" THEN 1 ELSE 0,
     info |-> kind = "info"]

\* whether get_file_loader takes the file for a CSV file
Supported(file) == splitext(basename(file)).ext = CsvExtension

\* RAGController(em).index_into_vector_db(), DATASET naming the file
Reindex ==
    \E em \in BOOLEAN, kind \in FaultKinds, file \in Files :
        LET f == Faults(kind, dataset)
            r == index_into_vector_db(variant, em, store, get_dataset_path(file), dataset, f)
        IN /\ ~em => kind \in {"none", "info"}
           /\ ~em => Supported(file)
           /\ ~Supported(file) => kind = "none"
           /\ store' = r.s
           /\ ret' = r.ret
           /\ op' = Call("index_into_vector_db", COLLECTION_NAME,
                         [existed |-> COLLECTION_NAME \in store.exists, em |-> em,
                          kind |-> kind, file |-> file,
                          count |-> Len(store.docs[COLLECTION_NAME])])
           /\ calls' = r.calls /\ writes' = r.writes
           /\ Config

Outcomes == {"ok", "empty", "raise"}

Search ==
    \E text \in Texts, limit \in {DefaultLimit}, outcome \in Outcomes, fail \in BOOLEAN :
        LET r == search_vector_db_collection(variant, store, text, limit, outcome, fail)
        IN /\ fail => outcome = "ok"
           /\ (fail \/ outcome # "ok") => text = TextPool[1]
           /\ ret' = r.ret
           /\ op' = Call("search_vector_db_collection", COLLECTION_NAME,
                         [existed |-> COLLECTION_NAME \in store.exists, text |-> text,
                          limit |-> limit, outcome |-> outcome, fail |-> fail])
           /\ calls' = r.calls /\ writes' = <<>>
           /\ UNCHANGED store
           /\ Config

Next ==
    \/ CreateCollection
    \/ DeleteCollection
    \/ GetCollectionInfo
    \/ InsertOne
    \/ InsertMany
    \/ SearchByVector
    \/ Reindex
    \/ Search

Spec == Init /\ [][Next]_vars

\* ------------------------------------------------- the factories at work
\* any environment: settings, and a file system holding some of the
\* directories; no object is made yet
InitFactory ==
    /\ variant = CHROMA
    /\ dataset = <<>>
    /\ store = EmptyStore
    /\ op = Call("init", COLLECTION_NAME, [x |-> 0])
    /\ ret = RetNone
    /\ calls = <<>>
    /\ writes = <<>>
    /\ \E db_path \in DbPaths, openai \in Credentials, groq \in Credentials,
          azure_key \in Credentials, azure_endpoint \in {Unset, "secret"} :
           settings = Settings(db_path, openai, groq, azure_key, azure_endpoint)
    /\ \E made \in SUBSET DbPaths :
           fs = UNION {makedirs({}, database_dir \o <<"/">> \o d) : d \in made}
    /\ vdb = NoProvider
    /\ llm = NoLLM
    /\ controller = NoController
    /\ run = NoRuns
    /\ twin = NoTwin

Unused == UNCHANGED <<variant, dataset, store, calls, writes, settings, controller, run, twin>>

\* VectorDBProviderFactory(settings).create(provider)
VectorStoreCreate ==
    \E provider \in ProviderIds :
        LET r == VectorDBProviderFactory_create(settings, fs, provider)
        IN /\ vdb' = r.provider
           /\ fs' = r.fs
           /\ ret' = Ret(r.kind, <<>>, -1)
           /\ op' = Call("VectorDBProviderFactory.create", COLLECTION_NAME,
                         [provider |-> provider, before |-> fs])
           /\ UNCHANGED llm
           /\ Unused

\* connect() of the object made last; the client creates its directory
Connect ==
    /\ vdb # NoProvider
    /\ vdb' = connect(vdb)
    /\ fs' = makedirs(fs, vdb.db_path)
    /\ ret' = RetNone
    /\ op' = Call("connect", COLLECTION_NAME, [before |-> fs])
    /\ UNCHANGED llm
    /\ Unused

Disconnect ==
    /\ vdb # NoProvider
    /\ vdb' = disconnect(vdb)
    /\ ret' = RetNone
    /\ op' = Call("disconnect", COLLECTION_NAME, [before |-> fs])
    /\ UNCHANGED <<fs, llm>>
    /\ Unused

\* LLMProviderFactory(settings, azure).create(provider)
EmbeddingProviderCreate ==
    \E provider \in ProviderIds, azure \in BOOLEAN, ctor \in {"ok", "raise"} :
        LET r == LLMProviderFactory_create(settings, azure, provider, ctor)
        IN /\ llm' = r.llm
           /\ ret' = Ret(r.kind, <<>>, -1)
           /\ op' = Call("LLMProviderFactory.create", COLLECTION_NAME,
                         [provider |-> provider, azure |-> azure, ctor |-> ctor])
           /\ UNCHANGED <<fs, vdb>>
           /\ Unused

NextFactory ==
    \/ VectorStoreCreate
    \/ Connect
    \/ Disconnect
    \/ EmbeddingProviderCreate

SpecFactory == InitFactory /\ [][NextFactory]_vars

\* ------------------------------------------------- the controllers' calls
\* the number of methods called on one controller
MaxOps == 2

\* the environment of one run: any credentials, any backends
InitController ==
    /\ variant \in Variants \cup {"OTHER"}
    /\ \E R \in 1..MaxRows : dataset = Slice(RowPool, 0, R)
    /\ store = EmptyStore
    /\ op = Call("init", COLLECTION_NAME, [x |-> 0])
    /\ ret = RetNone
    /\ calls = <<>>
    /\ writes = <<>>
    /\ \E openai \in Credentials, groq \in {Unset, "secret"},
          embedding_backend \in {OPENAI, GROQ, "OTHER"} :
           settings = ControllerSettings(
                          Settings(<<"chroma_db">>, openai, groq, Unset, Unset),
                          embedding_backend, variant)
    /\ fs = {}
    /\ vdb = NoProvider
    /\ llm = NoLLM
    /\ controller = NoController
    /\ run = NoRuns
    /\ twin = NoTwin

Environment == UNCHANGED <<variant, dataset, settings, run, twin>>

\* RAGController()
NewRAGController ==
    LET r == RAGController_init(settings, fs)
    IN /\ controller = NoController /\ calls = <<>>
       /\ llm' = r.llm /\ vdb' = r.vdb /\ fs' = r.fs
       /\ calls' = r.calls
       /\ controller' = IF r.kind = "controller" THEN "RAGController" ELSE NoController
       /\ ret' = IF r.kind = "raised" THEN RetRaised ELSE RetNone
       /\ op' = Call("RAGController", COLLECTION_NAME, [x |-> 0])
       /\ UNCHANGED <<store, writes>>
       /\ Environment

\* DataProcessController()
NewDataProcessController ==
    LET r == DataProcessController_init(settings, fs, "client")
    IN /\ controller = NoController /\ calls = <<>>
       /\ llm' = r.llm /\ vdb' = r.vdb /\ fs' = r.fs
       /\ calls' = r.calls
       /\ controller' = IF r.kind = "controller" THEN "DataProcessController"
                        ELSE NoController
       /\ ret' = IF r.kind = "raised" THEN RetRaised ELSE RetNone
       /\ op' = Call("DataProcessController", COLLECTION_NAME, [x |-> 0])
       /\ UNCHANGED <<store, writes>>
       /\ Environment

\* index_into_vector_db() of the RAGController: with em it constructs a
\* DataProcessController of its own inside the try block
IndexIntoVectorDb ==
    \E em \in BOOLEAN, kind \in {"none", "embed_last", "write"} :
        LET client == "process_controller.client" \o ToString(Len(calls))
            p == DataProcessController_init(settings, fs, client)
            f == Faults(kind, dataset)
            r == index_into_vector_db(variant, em, store,
                                      get_dataset_path(<<"dataset", ".", "csv">>), dataset, f)
        IN /\ controller = "RAGController"
           /\ ~em => kind = "none"
           /\ IF em /\ p.kind = "raised"
              THEN /\ calls' = Append(calls, MethodCall("self", "index_into_vector_db"))
                             \o p.calls
                   /\ ret' = RetNone
                   /\ UNCHANGED <<store, writes>>
              ELSE /\ calls' = Append(calls, MethodCall("self", "index_into_vector_db"))
                             \o (IF em THEN p.calls ELSE <<>>)
                             \o Trace(r.calls, client, "process_controller")
                   /\ ret' = r.ret
                   /\ store' = r.s
                   /\ writes' = r.writes
           /\ Operations(calls) < MaxOps
           /\ op' = Call("index_into_vector_db", COLLECTION_NAME, [em |-> em, kind |-> kind])
           /\ UNCHANGED <<fs, vdb, llm, controller>>
           /\ Environment

\* search_vector_db_collection(text) of the RAGController
SearchVectorDb ==
    \E text \in Texts, outcome \in {"ok", "raise"} :
        LET r == search_vector_db_collection(variant, store, text, DefaultLimit, outcome, FALSE)
        IN /\ controller = "RAGController"
           /\ calls' = Append(calls, MethodCall("self", "search_vector_db_collection"))
                     \o Trace(r.calls, text_embedding_client, "self")
           /\ Operations(calls) < MaxOps
           /\ ret' = r.ret
           /\ op' = Call("search_vector_db_collection", COLLECTION_NAME,
                         [text |-> text, outcome |-> outcome])
           /\ UNCHANGED <<store, writes, fs, vdb, llm, controller>>
           /\ Environment

\* get_file_loader and prepare_data_for_injection of a DataProcessController
PrepareData ==
    \E kind \in {"none", "load", "embed_first"} :
        LET f == Faults(kind, dataset)
            g == get_file_loader(get_dataset_path(<<"dataset", ".", "csv">>), dataset, f.load)
            p == prepare_data_for_injection(g.df, g.file_name, f.embedFailAt)
            made == <<"get_file_loader">> \o g.calls \o
                    (IF g.kind = "table"
                     THEN <<"prepare_data_for_injection">> \o EmbedCalls(p.embedded)
                     ELSE <<>>)
        IN /\ controller = "DataProcessController"
           /\ calls' = calls \o Trace(made, "client", "self")
           /\ Operations(calls) < MaxOps
           /\ ret' = IF g.kind = "raised" \/ (g.kind = "table" /\ p.raised)
                     THEN RetRaised ELSE RetNone
           /\ op' = Call("prepare_data_for_injection", COLLECTION_NAME, [kind |-> kind])
           /\ UNCHANGED <<store, writes, fs, vdb, llm, controller>>
           /\ Environment

NextController ==
    \/ NewRAGController
    \/ NewDataProcessController
    \/ IndexIntoVectorDb
    \/ SearchVectorDb
    \/ PrepareData

SpecController == InitController /\ [][NextController]_vars

\* ------------------------------------------ two reindex runs interleaved
\* a store that holds the collection with the documents of an earlier run
\* over `old` rows, or holds nothing
Indexed(v, old) ==
    IF old = 0 \/ v = QDRANT THEN EmptyStore
    ELSE index_reembed(v, EmptyStore, get_dataset_path(<<"dataset", ".", "csv">>),
                       Slice(RowPool, 0, old), Faults("none", <<>>)).s

InitConcurrent ==
    /\ variant \in Variants
    /\ \E R \in 1..MaxRows : dataset = Slice(RowPool, 0, R)
    /\ \E old \in 0..MaxRows : store = Indexed(variant, old)
    /\ op = Call("init", COLLECTION_NAME, [x |-> 0])
    /\ ret = RetNone
    /\ calls = <<>>
    /\ writes = <<>>
    /\ settings = Settings(<<"chroma_db">>, "secret", "secret", Unset, Unset)
    /\ LET d == get_database_path({}, settings.VECTOR_DB_PATH)
       IN /\ fs = d.fs
          /\ vdb = connect(VectorDBProviderFactory_create(settings, {}, variant).provider)
    /\ llm = LLMProviderFactory_create(settings, FALSE, OPENAI, "ok").llm
    /\ controller = "RAGController"
    /\ twin = NoTwin
    /\ \E serial \in BOOLEAN :
           run = RunsOf([r \in Runs |-> "start"], [r \in Runs |-> RetNone], serial)

Fixed == UNCHANGED <<variant, dataset, settings, fs, vdb, llm, controller, calls, twin>>

\* run r may take a step: the caller that serializes lets it go on only
\* while no other run is between its start and its end
Turn(r) == run.serial => \A q \in Runs \ {r} : run.pc[q] \in {"start", "done"}

\* run r has made the call `name`, which left the store as s, and stands at pc
Goes(r, name, pc, s) ==
    /\ run' = [run EXCEPT !.pc[r] = pc]
    /\ store' = s
    /\ op' = Call(name, COLLECTION_NAME, [run |-> r])
    /\ ret' = RetNone
    /\ UNCHANGED writes
    /\ Fixed

\* an exception caught by index_into_vector_db, or its return, ends run r
Ends(r, name, out, s) ==
    /\ run' = [run EXCEPT !.pc[r] = "done", !.out[r] = out]
    /\ store' = s
    /\ op' = Call(name, COLLECTION_NAME, [run |-> r])
    /\ ret' = out
    /\ UNCHANGED writes
    /\ Fixed

\* the file is loaded, the rows are prepared and create_collection is called
\* with do_reset and no embedding_size: a TypeError on the Qdrant variant
Enter(r) ==
    /\ run.pc[r] = "start" /\ Turn(r)
    /\ IF VDB_create_collection(variant, EmptyStore, COLLECTION_NAME, None, TRUE).ret.kind
             = "raised"
       THEN Ends(r, "create_collection", RetNone, store)
       ELSE Goes(r, "prepare_data_for_injection", "delete_check", store)

\* is_collection_existed in delete_collection
DeleteCheck(r) ==
    /\ run.pc[r] = "delete_check" /\ Turn(r)
    /\ Goes(r, "is_collection_existed",
            IF Chroma_is_collection_existed(store, COLLECTION_NAME)
            THEN "delete" ELSE "create_check", store)

\* client.delete_collection
Delete(r) ==
    /\ run.pc[r] = "delete" /\ Turn(r)
    /\ LET d == Client_delete_collection_call(store, COLLECTION_NAME)
       IN IF d.ret.kind = "raised"
          THEN Ends(r, "delete_collection", RetNone, store)
          ELSE Goes(r, "delete_collection", "create_check", d.s)

\* is_collection_existed in create_collection
CreateCheck(r) ==
    /\ run.pc[r] = "create_check" /\ Turn(r)
    /\ Goes(r, "is_collection_existed",
            IF ~Chroma_is_collection_existed(store, COLLECTION_NAME)
            THEN "create" ELSE "insert", store)

\* client.create_collection
Create(r) ==
    /\ run.pc[r] = "create" /\ Turn(r)
    /\ LET c == Client_create_collection(store, COLLECTION_NAME)
       IN IF c.ret.kind = "raised"
          THEN Ends(r, "create_collection", RetNone, store)
          ELSE Goes(r, "create_collection", "insert", c.s)

\* insert_many: the prepared rows make one batch; its result is not looked at
Insert(r) ==
    /\ run.pc[r] = "insert" /\ Turn(r)
    /\ LET p == prepare_data_for_injection(dataset, "dataset", 0)
           m == VDB_insert_many(variant, store, COLLECTION_NAME, p.docs, p.embeddings,
                                Some(p.metadatas), Some(p.ids), DefaultBatchSize, 0)
       IN IF m.ret.kind = "raised"
          THEN Ends(r, "insert_many", RetNone, m.s)
          ELSE Goes(r, "insert_many", "info", m.s)

\* get_collection_info, whose result the run returns
Info(r) ==
    /\ run.pc[r] = "info" /\ Turn(r)
    /\ LET vectordb_info == VDB_get_collection_info(variant, store, COLLECTION_NAME, FALSE)
       IN Ends(r, "get_collection_info",
               IF vectordb_info.kind = "raised" THEN RetNone ELSE vectordb_info, store)

NextConcurrent ==
    \E r \in Runs :
        \/ Enter(r)
        \/ DeleteCheck(r)
        \/ Delete(r)
        \/ CreateCheck(r)
        \/ Create(r)
        \/ Insert(r)
        \/ Info(r)

SpecConcurrent == InitConcurrent /\ [][NextConcurrent]_vars

\* ------------------------------------- both variants given the same calls
\* `store` is the Chroma store, twin.s the Qdrant one
InitBoth ==
    /\ variant = CHROMA
    /\ dataset = <<>>
    /\ store = EmptyStore
    /\ op = Call("init", COLLECTION_NAME, [x |-> 0])
    /\ ret = RetNone
    /\ calls = <<>>
    /\ writes = <<>>
    /\ settings = Settings(<<"chroma_db">>, "secret", "secret", Unset, Unset)
    /\ fs = get_database_path({}, settings.VECTOR_DB_PATH).fs
    /\ vdb = VectorDBProviderFactory_create(settings, {}, variant).provider
    /\ llm = LLMProviderFactory_create(settings, FALSE, OPENAI, "ok").llm
    /\ controller = NoController
    /\ run = NoRuns
    /\ twin = NoTwin

\* the call `name` with arguments a, which c is the outcome of on the Chroma
\* variant and q on the Qdrant variant
Both(name, n, a, c, q) ==
    /\ store' = c.s
    /\ ret' = c.ret
    /\ twin' = Twin(q.s, q.ret)
    /\ op' = Call(name, n, a)
    /\ calls' = <<>> /\ writes' = c.tr
    /\ UNCHANGED <<variant, dataset, settings, fs, llm, controller, run>>

BothConnect ==
    /\ vdb.client = None
    /\ vdb' = connect(vdb)
    /\ Both("connect", COLLECTION_NAME, [x |-> 0], Out(store, RetNone, <<>>),
            Out(twin.s, RetNone, <<>>))

BothCreateCollection ==
    \E n \in Names, do_reset \in BOOLEAN :
        /\ Both("create_collection", n, [do_reset |-> do_reset],
                Chroma_create_collection(store, n, do_reset),
                Qdrant_create_collection(twin.s, n, Some(EmbeddingSize), do_reset))
        /\ UNCHANGED vdb

BothDeleteCollection ==
    \E n \in Names :
        /\ Both("delete_collection", n, [x |-> 0], Chroma_delete_collection(store, n),
                Qdrant_delete_collection(twin.s, n))
        /\ UNCHANGED vdb

BothGetCollectionInfo ==
    \E n \in Names, fail \in BOOLEAN :
        /\ Both("get_collection_info", n, [fail |-> fail],
                Out(store, Chroma_get_collection_info(store, n, fail), <<>>),
                Out(twin.s, Qdrant_get_collection_info(twin.s, n, fail), <<>>))
        /\ UNCHANGED vdb

BothInsertOne ==
    \E n \in Names, text \in Texts, withId \in BOOLEAN, fail \in BOOLEAN :
        LET record_id == IF withId THEN Some("id0") ELSE None
        IN /\ TotalDocs(store) < MaxDocs /\ TotalDocs(twin.s) < MaxDocs
           /\ Both("insert_one", n, [withId |-> withId, fail |-> fail, text |-> text],
                   Chroma_insert_one(store, n, text, EmbedVec(text), None, record_id,
                                     Uuid4(store.docs[n]), fail),
                   Qdrant_insert_one(twin.s, n, text, EmbedVec(text), None, record_id, fail))
           /\ UNCHANGED vdb

BothInsertMany ==
    \E n \in Names, len \in 0..MaxLen, withIds \in BOOLEAN, batch_size \in {1, DefaultBatchSize} :
        \E failAt \in 0..NumBatches(len, batch_size) :
            LET texts == Slice(TextPool, 0, len)
                vectors == [i \in 1..len |-> EmbedVec(texts[i])]
                record_ids == IF withIds THEN Some(CallerIds(len)) ELSE None
            IN /\ TotalDocs(store) + len <= MaxDocs /\ TotalDocs(twin.s) + len <= MaxDocs
               /\ Both("insert_many", n,
                       [len |-> len, withIds |-> withIds, batch_size |-> batch_size,
                        failAt |-> failAt],
                       Chroma_insert_many(store, n, texts, vectors, None, record_ids,
                                          batch_size, failAt),
                       Qdrant_insert_many(twin.s, n, texts, vectors, None, record_ids,
                                          batch_size, failAt))
               /\ UNCHANGED vdb

BothSearchByVector ==
    \E n \in {COLLECTION_NAME}, text \in Texts, fail \in BOOLEAN :
        /\ Both("search_by_vector", n, [text |-> text, fail |-> fail],
                Chroma_search_by_vector(store, n, EmbedVec(text), DefaultLimit, fail),
                Qdrant_search_by_vector(twin.s, n, EmbedVec(text), DefaultLimit, fail))
        /\ UNCHANGED vdb

NextBoth ==
    \/ BothConnect
    \/ BothCreateCollection
    \/ BothDeleteCollection
    \/ BothGetCollectionInfo
    \/ BothInsertOne
    \/ BothInsertMany
    \/ BothSearchByVector

SpecBoth == InitBoth /\ [][NextBoth]_vars


\* ----------------------------------------------------------------- claims
IsReindex == op.name = "index_into_vector_db"
IsSearch == op.name = "search_vector_db_collection"

Range(seq) == {seq[i] : i \in 1..Len(seq)}

\* C1: a re-embedding index run that meets no embedding or backend failure
\* leaves the configured collection holding exactly one document per dataset
\* row, whatever it held before and however often the run is repeated.
C1_IdempotentReset ==
    (IsReindex /\ op.a.em /\ op.a.kind = "none" /\ Supported(op.a.file)) =>
        /\ COLLECTION_NAME \in store.exists
        /\ Len(store.docs[COLLECTION_NAME]) = Len(dataset)

\* C2: index_into_vector_db never lets an exception out: in both modes it
\* returns collection info or None.
C2_ReindexNeverRaises ==
    IsReindex => ret.kind \in {"info", "emptydict", "none"}

\* what the vector store answers to the search the controller makes for the
\* last call
StoreAnswer ==
    VDB_search_by_vector(variant, store, COLLECTION_NAME, EmbedVec(op.a.text),
                         op.a.limit, op.a.fail).ret

\* C3: search_vector_db_collection never raises and never returns None: it
\* returns the empty list when the embedding or the store search raises or the
\* store returns None, and otherwise exactly the list the store returned.
C3_SearchNeverRaises ==
    IsSearch =>
        /\ ret.kind = "list"
        /\ IF op.a.outcome # "ok" \/ StoreAnswer.kind \in {"raised", "none"}
           THEN ret.docs = <<>>
           ELSE ret.docs = StoreAnswer.docs

\* a search whose store call raised, answered with the empty list
C3_Witness ==
    /\ IsSearch
    /\ op.a.outcome = "ok"
    /\ StoreAnswer.kind = "raised"
    /\ ret = RetList(<<>>)

\* C4: when the embedding of the query is empty, the search returns the empty
\* list without calling search_by_vector.
C4_EmptyQueryShortCircuit ==
    (IsSearch /\ op.a.outcome = "empty") =>
        /\ ret = RetList(<<>>)
        /\ "search_by_vector" \notin Range(calls)

\* an empty embedding for a query over a collection that holds documents
C4_Witness ==
    /\ IsSearch
    /\ op.a.outcome = "empty"
    /\ Len(store.docs[COLLECTION_NAME]) > 0
    /\ calls = <<"embed_text">>

\* C5: create_collection with do_reset leaves the collection existing and
\* empty; without do_reset it keeps an existing collection and its documents.
\* It returns true exactly when this call created the collection, and false
\* exactly when the collection existed and do_reset was false.
C5_CreateCollection ==
    [][(op'.name = "create_collection" /\ ret'.kind # "raised") =>
          LET n == op'.coll
              do_reset == op'.a.do_reset
          IN /\ n \in store'.exists
             /\ do_reset => store'.docs[n] = <<>>
             /\ (~do_reset /\ n \in store.exists) => store'.docs[n] = store.docs[n]
             /\ (ret'.kind = "true") <=> (do_reset \/ n \notin store.exists)
             /\ (ret'.kind = "false") <=> (~do_reset /\ n \in store.exists)]_vars

\* a reset of a collection that held documents
C5_Witness ==
    /\ op.name = "create_collection"
    /\ op.a.do_reset /\ op.a.existed /\ op.a.count > 0
    /\ ret.kind = "true"
    /\ store.docs[op.coll] = <<>>

\* C6: insert_one and insert_many on a collection that does not exist return
\* false, raise nothing and leave the store as it was.
C6_MissingCollectionInsert ==
    (op.name \in {"insert_one", "insert_many"} /\ ~op.a.existed) =>
        /\ ret.kind = "false"
        /\ op.coll \notin store.exists
        /\ store.docs[op.coll] = <<>>

\* the ids insert_many stores the texts of the last call under
LastIds ==
    IF op.a.withIds THEN CallerIds(op.a.len)
    ELSE [i \in 1..op.a.len |-> ToString(i - 1)]

\* the vectors of the last insert are not of the length the collection takes,
\* so that the client refuses them whatever else happens
DimensionRefused ==
    LET length == Len(Embed(op.a.model, TextPool[1]))
    IN IF variant = CHROMA
       THEN Chroma_dimension(store.docs[op.coll]) \notin {0, length}
       ELSE store.size[op.coll] # length

\* C7: when the write of batch k of insert_many fails, the call returns false,
\* the documents of the batches before k stay stored, and the writes attempted
\* are those of batches 1..k and no other.
C7_BatchFailureContainment ==
    (op.name = "insert_many" /\ op.a.existed /\ op.a.failAt >= 1 /\ ~DimensionRefused) =>
        LET k == op.a.failAt
            stored == Min((k - 1) * op.a.batch_size, op.a.len)
        IN /\ ret.kind = "false"
           /\ writes = [i \in 1..k |-> i]
           /\ \A j \in 1..stored : LastIds[j] \in Ids(store.docs[op.coll])

\* the second of two batches failed and the first is stored
C7_Witness ==
    /\ op.name = "insert_many"
    /\ op.a.existed /\ op.a.failAt = 2 /\ op.a.batch_size = 1
    /\ ret.kind = "false"
    /\ writes = <<1, 2>>
    /\ LastIds[1] \in Ids(store.docs[op.coll])

\* C8: search_by_vector never raises: no match and a backend exception both
\* come back as an empty or absent result.
C8_SearchByVectorNeverRaises ==
    op.name = "search_by_vector" => ret.kind \in {"none", "list"}

\* the hits of the vendor client for the last search, as text and score of
\* each hit in the client's order
BackendHits(vector, limit) ==
    LET docs == store.docs[COLLECTION_NAME]
    IN IF \E i \in 1..Len(docs) : Len(docs[i].vector) # Len(vector) THEN <<>>
       ELSE IF variant = CHROMA
       THEN LET q == Chroma_query(docs, vector, limit)
            IN [i \in 1..Len(q.ids[1]) |->
                   [text |-> q.documents[1][i], score |-> q.distances[1][i]]]
       ELSE LET r == Qdrant_search(docs, vector, limit)
            IN [i \in 1..Len(r) |-> [text |-> r[i].payload.text, score |-> r[i].score]]

\* C9: when the backend returns n >= 1 hits, search_by_vector returns n
\* documents, the i-th with the text and the score of the i-th hit, and
\* search_vector_db_collection hands the same list on.
C9_BackendOrderKept ==
    /\ (op.name = "search_by_vector" /\ op.a.existed /\ ~op.a.fail) =>
          LET hits == BackendHits(op.a.vector, op.a.limit)
          IN Len(hits) >= 1 => (ret.kind = "list" /\ ret.docs = hits)
    /\ (IsSearch /\ op.a.existed /\ ~op.a.fail /\ op.a.outcome = "ok") =>
          LET hits == BackendHits(EmbedVec(op.a.text), op.a.limit)
          IN Len(hits) >= 1 => (ret.kind = "list" /\ ret.docs = hits)

\* two hits of different score, returned in the backend's order
C9_Witness ==
    /\ op.name = "search_by_vector"
    /\ ret.kind = "list"
    /\ Len(ret.docs) >= 2
    /\ ret.docs[1].score # ret.docs[2].score

\* C10: delete_collection on a name that does not exist changes nothing and
\* raises nothing; on a name that exists it removes that collection and
\* leaves every other collection and its documents alone.
C10_DeleteCollection ==
    [][op'.name = "delete_collection" =>
          LET n == op'.coll
          IN /\ ret'.kind # "raised"
             /\ IF n \notin store.exists
                THEN store' = store
                ELSE /\ store'.exists = store.exists \ {n}
                     /\ store'.docs[n] = <<>>
                     /\ \A m \in Names \ {n} : store'.docs[m] = store.docs[m]]_vars

\* a delete of a missing name beside a collection that holds documents
C10_Witness ==
    /\ op.name = "delete_collection"
    /\ ~op.a.existed
    /\ \E m \in Names \ {op.coll} : m \in store.exists /\ Len(store.docs[m]) > 0


\* the configured collection is as the last call found it
CollectionKept ==
    /\ (COLLECTION_NAME \in store.exists) = op.a.existed
    /\ Len(store.docs[COLLECTION_NAME]) = op.a.count

PreparedDataset == prepare_data_for_injection(dataset, "dataset", 0)

\* the text of one column of a row: "<col>: <value>,\n"
ColumnText(row, col) == col \o ": " \o Format(col, row[col]) \o ",\n"

\* C12: for a dataset of R rows prepare_data_for_injection returns four lists
\* of length R; for each row the text is the concatenation, in column order,
\* of "<col>: <value>,\n", the vector is the embedding of that text, the id is
\* "id" followed by the row index and the metadata is {"source": base name};
\* the ids are pairwise distinct, and these are the documents an indexing run
\* stores.
C12_PreparedDocuments ==
    LET p == PreparedDataset
        R == Len(dataset)
    IN /\ ~p.raised
       /\ Len(p.docs) = R /\ Len(p.embeddings) = R
       /\ Len(p.ids) = R /\ Len(p.metadatas) = R
       /\ \A i \in 1..R :
              /\ p.docs[i] = ColumnText(dataset[i], columns[1])
                                 \o ColumnText(dataset[i], columns[2])
              /\ p.embeddings[i] = EmbedVec(p.docs[i])
              /\ p.ids[i] = "id" \o ToString(i - 1)
              /\ p.metadatas[i] = << <<"source", "dataset">> >>
       /\ \A i, j \in 1..R : i # j => p.ids[i] # p.ids[j]
       /\ (IsReindex /\ op.a.em /\ op.a.kind = "none" /\ ret.kind = "info") =>
              store.docs[COLLECTION_NAME] =
                  [i \in 1..R |-> Document(p.ids[i], p.docs[i], p.embeddings[i],
                                           Some(p.metadatas[i]))]

\* an indexing run that stored the two rows of the dataset
C12_Witness ==
    /\ IsReindex /\ op.a.em /\ ret = RetInfo(2)
    /\ Len(dataset) = 2
    /\ store.docs[COLLECTION_NAME][2].id = "id1"
    /\ store.docs[COLLECTION_NAME][2].text = "make: Honda,\nyear: 2019,\n"


\* the row whose embedding raised in the last indexing run, 0 when none did
FailedRow ==
    LET k == Faults(op.a.kind, dataset).embedFailAt
    IN IF k \in 1..Len(dataset) THEN k ELSE 0

FullRun(R) ==
    <<"get_file_loader", "read_csv", "prepare_data_for_injection">> \o EmbedCalls(R)
        \o <<"create_collection", "insert_many", "get_collection_info">>

IsPrefix(a, b) == Len(a) <= Len(b) /\ SubSeq(b, 1, Len(a)) = a

C16_ReindexPostcondition ==
    (IsReindex /\ op.a.em /\ ret.kind = "info") =>
        /\ ret.count = Len(dataset)
        /\ Len(store.docs[COLLECTION_NAME]) = Len(dataset)

\* C17: the controller's calls are accepted by every variant: with a CSV
\* dataset and no failure of the embedding or the backend, a re-embedding run
\* makes all its calls and returns the info of a collection of one document
\* per row, on Chroma and Qdrant alike.
C17_BackendIndependence ==
    (IsReindex /\ op.a.em /\ Supported(op.a.file) /\ op.a.kind = "none") =>
        /\ calls = FullRun(Len(dataset))
        /\ ret = RetInfo(Len(dataset))


IsVectorStoreCreate == op.name = "VectorDBProviderFactory.create"
IsEmbeddingProviderCreate == op.name = "LLMProviderFactory.create"

\* the directory the settings bind the vector store to
PersistenceDir == database_dir \o <<"/">> \o settings.VECTOR_DB_PATH

\* C18: for QDRANT and for CHROMA, VectorDBProviderFactory.create returns an
\* object of that engine whose client is None, bound to the directory of the
\* settings, which exists after the call and is left as it was when it
\* existed before; connect() sets the client; for any other identifier create
\* returns None; it never raises.
C18_VectorStoreFactory ==
    /\ IsVectorStoreCreate =>
           /\ ret.kind # "raised"
           /\ op.a.before \subseteq fs
           /\ op.a.provider \in {QDRANT, CHROMA} =>
                  /\ ret.kind = "provider"
                  /\ vdb.engine = op.a.provider
                  /\ vdb.client = None
                  /\ vdb.db_path = PersistenceDir
                  /\ PersistenceDir \in fs
                  /\ PersistenceDir \in op.a.before => fs = op.a.before
           /\ op.a.provider \notin {QDRANT, CHROMA} =>
                  /\ ret.kind = "none"
                  /\ vdb = NoProvider
                  /\ fs = op.a.before
    /\ op.name = "connect" => vdb.client = Some(PersistenceDir)

\* create("QDRANT") made the nested directory, which some directory existing
\* before did not include
C18_Witness ==
    /\ IsVectorStoreCreate /\ op.a.provider = QDRANT
    /\ settings.VECTOR_DB_PATH = <<"vectors", "/", "db">>
    /\ op.a.before # {}
    /\ PersistenceDir \notin op.a.before
    /\ PersistenceDir \in fs
    /\ vdb = QdrantDBProvider(PersistenceDir)

\* whether the credentials create() needs for the provider and mode are set
CredentialsPresent(provider, azure) ==
    IF provider = OPENAI
    THEN IF azure THEN /\ ~Falsy(settings.AZURE_OPENAI_API_KEY)
                       /\ ~Falsy(settings.AZURE_OPENAI_ENDPOINT)
         ELSE ~Falsy(settings.OPENAI_API_KEY)
    ELSE ~Falsy(settings.GROQ_API_KEY)

\* C19: LLMProviderFactory.create never raises; for every provider identifier
\* and either value of the azure flag it returns None when the identifier is
\* not one of LLMEnums or a credential of the chosen path is missing, and a
\* provider only when the identifier is known and the credentials are set.
C19_CredentialsValidated ==
    IsEmbeddingProviderCreate =>
        LET valid == /\ op.a.provider \in {OPENAI, GROQ}
                     /\ CredentialsPresent(op.a.provider, op.a.azure)
        IN /\ ret.kind # "raised"
           /\ ~valid => ret.kind = "none" /\ llm = NoLLM
           /\ ret.kind = "provider" => valid


\* the lengths of the vectors a collection holds
VectorLengths(n) == {Len(store.docs[n][i].vector) : i \in 1..Len(store.docs[n])}

IsInsert == op.name \in {"insert_one", "insert_many"}

\* the texts handed to the last insert call
LastTexts ==
    IF op.name = "insert_one" THEN <<op.a.text>>
    ELSE Slice(TextPool, op.a.from, op.a.from + op.a.len)

\* a search of the collection of the last call, made now with the embedding
\* of the text and the limit, returns a document of that text
Found(text, limit) ==
    LET r == VDB_search_by_vector(variant, store, op.coll, Embed(op.a.model, text),
                                  limit, FALSE).ret
    IN /\ r.kind = "list"
       /\ \E i \in 1..Len(r.docs) : r.docs[i].text = text

\* C21: once an insert of a text T with the vector embed(T) has returned true,
\* search_by_vector with embed(T) and any limit >= 1 returns a list holding a
\* document whose text is T.
C21_RoundTrip ==
    (IsInsert /\ ret = RetTrue) =>
        \A i \in 1..Len(LastTexts), limit \in Limits : Found(LastTexts[i], limit)


\* the collection c exists, is empty and takes vectors of the configured model
EmptyAndFit(c) ==
    /\ c \in store.exists
    /\ store.docs[c] = <<>>
    /\ variant = QDRANT => store.size[c] = EmbeddingSize

\* C22: insert_many without record_ids gives the documents of the call
\* pairwise distinct ids, one per text over all its batches, and insert_one
\* without a record_id gives the document an id of the variant's own: on an
\* empty collection and a working backend every text of the call is stored
\* under an id of its own.
C22_AutoIds ==
    [][/\ (/\ op'.name = "insert_many" /\ ~op'.a.withIds /\ ~op'.a.short
           /\ op'.a.failAt = 0 /\ op'.a.model = "configured"
           /\ EmptyAndFit(op'.coll)) =>
              /\ ret' = RetTrue
              /\ Len(store'.docs[op'.coll]) = op'.a.len
              /\ Cardinality(Ids(store'.docs[op'.coll])) = op'.a.len
       /\ (/\ op'.name = "insert_one" /\ ~op'.a.withId /\ ~op'.a.fail
           /\ op'.a.model = "configured"
           /\ EmptyAndFit(op'.coll)) =>
              /\ ret' = RetTrue
              /\ Len(store'.docs[op'.coll]) = 1]_vars


\* every document stored before the step is stored, unchanged, after it
DocumentsKept ==
    \A n \in Names :
        \A i \in 1..Len(store.docs[n]) :
            \E j \in 1..Len(store'.docs[n]) : store'.docs[n][j] = store.docs[n][i]

\* C23: a stored document keeps its id, text, metadata and vector until its
\* collection is deleted or reset: no insert_one, insert_many (also one that
\* reuses its id), create_collection without reset, search or
\* get_collection_info changes or removes it.
C23_StoredDocumentsImmutable ==
    [][(\/ op'.name \in {"insert_one", "insert_many", "search_by_vector",
                         "get_collection_info", "search_vector_db_collection"}
        \/ (op'.name = "create_collection" /\ ~op'.a.do_reset)) =>
           DocumentsKept]_vars

\* the documents a call of insert_many with the last call's arguments is to
\* leave in an empty collection: the texts in input order, each with its own
\* vector, metadata and id
LastDocuments ==
    [i \in 1..op.a.len |->
        Document(LastIds[i], LastTexts[i], Embed(op.a.model, LastTexts[i]),
                 IF variant = CHROMA THEN Some(<<>>) ELSE None)]

\* the collection exists and takes vectors of the configured model
Fits(c) ==
    /\ c \in store.exists
    /\ IF variant = CHROMA
       THEN Chroma_dimension(store.docs[c]) \in {0, EmbeddingSize}
       ELSE store.size[c] = EmbeddingSize

\* C24: insert_many of n aligned texts with batch size b into an existing
\* collection that takes the vectors, with no backend failure, makes exactly
\* ceil(n/b) backend writes, numbered one after another, and returns true;
\* into an empty collection it stores every input document once, in input
\* order, with its text, vector, metadata and id aligned
C24_Batching ==
    [][(/\ op'.name = "insert_many" /\ ~op'.a.short /\ op'.a.failAt = 0
        /\ op'.a.model = "configured" /\ Fits(op'.coll)) =>
           /\ ret' = RetTrue
           /\ writes' = [k \in 1..NumBatches(op'.a.len, op'.a.batch_size) |-> k]
           /\ store.docs[op'.coll] = <<>> => store'.docs[op'.coll] = LastDocuments'
           /\ \A n \in Names \ {op'.coll} : store'.docs[n] = store.docs[n]]_vars

C24_Witness ==
    /\ op.name = "insert_many" /\ ~op.a.short /\ op.a.failAt = 0
    /\ op.a.batch_size = 1 /\ op.a.len = MaxLen /\ ~op.a.withIds
    /\ ret = RetTrue /\ Len(writes) = MaxLen
    /\ store.docs[op.coll] = LastDocuments

\* the positions before i of the call trace that hold the call of `method`
\* on the object of call i
Earlier(i, method) ==
    {j \in 1..(i - 1) : calls[j] = MethodCall(calls[i].on, method)}

\* C25: in every execution of the controllers, each embed_text is preceded by
\* a set_embedding_model on the same embedding client, each vector store
\* operation is preceded by exactly one connect() of the store client, the
\* one the constructor made, and no controller calls disconnect()
C25_InitialiseBeforeUse ==
    \A i \in 1..Len(calls) :
        /\ calls[i].method = "embed_text" =>
               calls[i].on # Null /\ Earlier(i, "set_embedding_model") # {}
        /\ calls[i].method \in StoreMethods =>
               /\ calls[i].on # Null
               /\ Earlier(i, "connect") = {2}
               /\ vdb.client # None
        /\ calls[i].method # "disconnect"

C25_Witness ==
    /\ controller = "RAGController"
    /\ \E i \in 1..Len(calls) :
           calls[i].method = "embed_text" /\ calls[i].on # text_embedding_client
    /\ \E i \in 1..Len(calls) :
           calls[i] = MethodCall(text_embedding_client, "embed_text")
    /\ \E i \in 1..Len(calls) : calls[i] = MethodCall(vectordb_client, "insert_many")
    /\ \E i \in 1..Len(calls) : calls[i] = MethodCall(vectordb_client, "search_by_vector")

\* C26: when a factory's create returns None, the constructors of the
\* controllers call no method on it, and no exception leaves them
C26_NullChecked ==
    /\ \A i \in 1..Len(calls) : calls[i].on # Null
    /\ op.name \in {"RAGController", "DataProcessController"} => ret # RetRaised

\* the collection holds exactly the rows of the dataset, in row order
RowsHeld ==
    /\ COLLECTION_NAME \in store.exists
    /\ [i \in 1..Len(store.docs[COLLECTION_NAME]) |-> store.docs[COLLECTION_NAME][i].text]
           = PreparedDataset.docs

\* run r ended with the last call made
JustEnded(r) == run.pc[r] = "done" /\ op.name # "init" /\ op.a.run = r

\* run r returned the info of a collection of one document per row, and the
\* collection holds the rows
Sound(r) == run.out[r] = RetInfo(Len(dataset)) /\ RowsHeld

\* C27: when the caller serializes two re-embedding runs on the collection,
\* every run ends with the info of the collection and the collection holding
\* exactly the dataset's rows; interleaved at the store calls, a run can fail
\* or end otherwise (C27_Interleaved is such a state)
C27_SerializedRunsSafe ==
    \A r \in Runs : (run.serial /\ JustEnded(r)) => Sound(r)

C27_Interleaved ==
    /\ ~run.serial /\ variant = CHROMA
    /\ \E r \in Runs : JustEnded(r) /\ ~Sound(r)

\* C28: given the same sequence of connect, create_collection,
\* delete_collection, insert_one, insert_many, search_by_vector and
\* get_collection_info with the same arguments and the same backend failures,
\* the two variants agree after every call on the kind of its outcome, on the
\* collections that exist and on the number of documents each holds
C28_VariantsAgree ==
    /\ ret.kind = twin.ret.kind
    /\ store.exists = twin.s.exists
    /\ \A n \in Names : Len(store.docs[n]) = Len(twin.s.docs[n])

\* C29: a re-embedding run in which the file cannot be loaded or the embedding
\* of a row raises returns None and leaves the store as it was, the collection
\* and every document of the previous index included: the reset is never
\* reached, and a later search sees the old documents
C29_FailedIngestionKeepsIndex ==
    [][(/\ op'.name = "index_into_vector_db" /\ op'.a.em
        /\ \/ op'.a.kind = "load"
           \/ ~Supported(op'.a.file)
           \/ FailedRow' # 0) =>
           /\ ret' = RetNone
           /\ store' = store
           /\ \A text \in Texts :
                  VDB_search_by_vector(variant, store', COLLECTION_NAME, EmbedVec(text),
                                       DefaultLimit, FALSE)
                    = VDB_search_by_vector(variant, store, COLLECTION_NAME, EmbedVec(text),
                                           DefaultLimit, FALSE)]_vars

\* a run whose last embedding raised, on a collection that held two documents
\* and holds them still
C29_Witness ==
    /\ IsReindex /\ op.a.em /\ op.a.kind = "embed_last" /\ FailedRow # 0
    /\ op.a.existed /\ op.a.count = 2
    /\ COLLECTION_NAME \in store.exists
    /\ Len(store.docs[COLLECTION_NAME]) = 2
    /\ ret = RetNone

=============================================================================
